---- MODULE Spec2Model ----
(***************************************************************************)
(* Model of dnsparse's question section reader                             *)
(* (src/dnsparse/src/question.rs): the Questions iterator, the question    *)
(* scanner (read_question / read_label / read_query_class_and_kind) and    *)
(* the two traversals of a QuestionName (fmt::Display and PartialEq<&str>).*)
(*                                                                         *)
(* Buffers and strings are sequences of bytes.  Rust indexes from 0, TLA+  *)
(* sequences from 1: At(b, i) is Rust's b[i].                              *)
(***************************************************************************)
EXTENDS Integers, Sequences, FiniteSets, TLC

(***************************************************************************)
(* Bounds of the model.                                                    *)
(***************************************************************************)
\* longest unstructured message body
MaxArbLen == 6
\* most question records in a structured message body
MaxRecords == 2
\* longest header (bytes in front of the question section)
MaxHeader == 1
\* longest generated right-hand side of name == string
MaxStrLen == 1

(***************************************************************************)
(* Byte-sequence helpers.                                                  *)
(***************************************************************************)
At(b, i) == b[i + 1]

\* Rust's b[from..to] for in-range from <= to
Slice(b, from, to) == SubSeq(b, from + 1, to)

Last(s) == s[Len(s)]

RECURSIVE Flatten(_)
Flatten(ss) == IF ss = <<>> THEN <<>> ELSE Head(ss) \o Flatten(Tail(ss))

\* all sequences over S of length at most n
SeqsUpTo(S, n) == UNION {[1..k -> S] : k \in 0..n}

Prefixes(b) == {SubSeq(b, 1, k) : k \in 0..Len(b)}

(***************************************************************************)
(* The inputs: message buffers, question counts, comparison strings.       *)
(***************************************************************************)
\* bytes of unstructured bodies: terminator, length 1, pointer tag
ArbBytes == {0, 1, 192}

ArbBodies == SeqsUpTo(ArbBytes, MaxArbLen)

\* encoded names: root, "a.A", pointer to offset 0, "a" then pointer to 0,
\* "Example.COM"
NameRoot == <<0>>
NameAA == <<1, 97, 1, 65, 0>>
NamePtr == <<192, 0>>
NameAPtr == <<1, 97, 192, 0>>
NameExample == <<7, 69, 120, 97, 109, 112, 108, 101, 3, 67, 79, 77, 0>>

EncodedNames == {NameRoot, NameAA, NamePtr, NameAPtr}

\* type A (1), class ANY (255), big-endian
TypeClassTails == {<<0, 1, 0, 255>>}

Records == {n \o t : n \in EncodedNames, t \in TypeClassTails}

\* the bodies of valid messages: up to MaxRecords records back-to-back, and
\* the one question "Example.COM"
ValidBodies ==
  {Flatten(rs) : rs \in SeqsUpTo(Records, MaxRecords)}
    \cup {NameExample \o t : t \in TypeClassTails}

\* a valid message body cut at any byte boundary
TruncatedBodies == UNION {Prefixes(m) : m \in ValidBodies}

Headers == {[k \in 1..n |-> 0] : n \in 0..MaxHeader}

Counts == 0..(MaxRecords + 1)

\* "example.com", "EXAMPLE.COM", "example.co", "example.com.", "exampleXcom"
ExampleStrings ==
  { <<101, 120, 97, 109, 112, 108, 101, 46, 99, 111, 109>>,
    <<69, 88, 65, 77, 80, 76, 69, 46, 67, 79, 77>>,
    <<101, 120, 97, 109, 112, 108, 101, 46, 99, 111>>,
    <<101, 120, 97, 109, 112, 108, 101, 46, 99, 111, 109, 46>>,
    <<101, 120, 97, 109, 112, 108, 101, 88, 99, 111, 109>> }

\* "a.", ".a", "aa", "a.a", "A.a", "a.A", "a.a.", "aXa", "a.a.A", "A.A.a",
\* "a.aa", "a.!", "!" ('!' is 'A' minus 32)
SmallStrings ==
  { <<97, 46>>, <<46, 97>>, <<97, 97>>,
    <<97, 46, 97>>, <<65, 46, 97>>, <<97, 46, 65>>, <<97, 46, 97, 46>>,
    <<97, 88, 97>>, <<97, 46, 97, 46, 65>>, <<65, 46, 65, 46, 97>>,
    <<97, 46, 97, 97>>, <<97, 46, 33>>, <<33>> }

\* 'a', 'A', '.'
StrBytes == {97, 65, 46}

Others == SeqsUpTo(StrBytes, MaxStrLen) \cup SmallStrings \cup ExampleStrings

(***************************************************************************)
(* question.rs, the pure parts.                                            *)
(***************************************************************************)
is_pointer(len) == (len \div 64) = 3

mask_len(len) == len % 64

\* u8::to_ascii_lowercase, used by eq_ignore_ascii_case
to_ascii_lowercase(b) == IF b \in 65..90 THEN b + 32 ELSE b

\* a comparison that does not fold case
eq_ignore_ascii_case_exact(x, y) == x = y

eq_ignore_ascii_case(x, y) ==
  /\ Len(x) = Len(y)
  /\ \A k \in 1..Len(x) : to_ascii_lowercase(x[k]) = to_ascii_lowercase(y[k])

\* size_of::<QueryClass>() + size_of::<QueryKind>()
TypeClassSize == 4

\* a pointer taken for one byte
read_label_short_pointer(b, i) ==
  IF i < Len(b)
    THEN IF is_pointer(At(b, i))
           THEN IF i + 1 + 1 < Len(b)
                  THEN [some |-> TRUE, last |-> TRUE, i |-> i + 1]
                  ELSE [some |-> FALSE, last |-> FALSE, i |-> i]
           ELSE [some |-> TRUE, last |-> mask_len(At(b, i)) = 0,
                 i |-> i + 1 + mask_len(At(b, i))]
    ELSE [some |-> FALSE, last |-> FALSE, i |-> i]

\* a pointer that is recognised and not skipped
read_label_pointer_not_skipped(b, i) ==
  IF i < Len(b)
    THEN IF is_pointer(At(b, i))
           THEN IF i + 1 + 1 < Len(b)
                  THEN [some |-> TRUE, last |-> TRUE, i |-> i]
                  ELSE [some |-> FALSE, last |-> FALSE, i |-> i]
           ELSE [some |-> TRUE, last |-> mask_len(At(b, i)) = 0,
                 i |-> i + 1 + mask_len(At(b, i))]
    ELSE [some |-> FALSE, last |-> FALSE, i |-> i]

\* a label skipped without its length byte
read_label_content_only(b, i) ==
  IF i < Len(b)
    THEN IF is_pointer(At(b, i))
           THEN IF i + 1 + 1 < Len(b)
                  THEN [some |-> TRUE, last |-> TRUE, i |-> i + 1 + 1]
                  ELSE [some |-> FALSE, last |-> FALSE, i |-> i]
           ELSE [some |-> TRUE, last |-> mask_len(At(b, i)) = 0,
                 i |-> i + mask_len(At(b, i))]
    ELSE [some |-> FALSE, last |-> FALSE, i |-> i]

\* read_label: some = FALSE is None; otherwise Some(last), cursor moved to i
read_label(b, i) ==
  IF i < Len(b)
    THEN IF is_pointer(At(b, i))
           THEN IF i + 1 + 1 < Len(b)
                  THEN [some |-> TRUE, last |-> TRUE, i |-> i + 1 + 1]
                  ELSE [some |-> FALSE, last |-> FALSE, i |-> i]
           ELSE [some |-> TRUE, last |-> mask_len(At(b, i)) = 0,
                 i |-> i + 1 + mask_len(At(b, i))]
    ELSE [some |-> FALSE, last |-> FALSE, i |-> i]

\* type and class taken without the check of the length
read_query_class_and_kind_unchecked(b, i) == [ok |-> TRUE, i |-> i + TypeClassSize]

read_query_class_and_kind(b, i) ==
  IF i + TypeClassSize <= Len(b)
    THEN [ok |-> TRUE, i |-> i + TypeClassSize]
    ELSE [ok |-> FALSE, i |-> i]

\* read_question: ok is the returned bool, i the cursor left in *i
RECURSIVE read_question(_, _)
read_question(b, i) ==
  LET l == read_label(b, i) IN
    IF ~l.some THEN [ok |-> FALSE, i |-> l.i]
    ELSE IF ~l.last THEN read_question(b, l.i)
    ELSE read_query_class_and_kind(b, l.i)

\* the cursors at which the loop of read_question calls read_label, followed
\* by the cursor the last label step that succeeded left
RECURSIVE read_question_cursors(_, _)
read_question_cursors(b, i) ==
  LET l == read_label(b, i) IN
    IF ~l.some THEN <<i>>
    ELSE IF ~l.last THEN <<i>> \o read_question_cursors(b, l.i)
    ELSE <<i, l.i>>

\* one call too many
Exhausted_after(cur, cnt) == cur > cnt

\* the guard of Questions::next
Exhausted(cur, cnt) == cur >= cnt

\* a name view that ends one byte late, on the type code
QuestionName_late(q) == [start |-> q.start, end |-> q.end - 4]

\* Question::name
QuestionName(q) == [start |-> q.start, end |-> q.end - 5]

\* u16::from_be_bytes([b0, b1])
from_be_bytes(b0, b1) == (b0 * 256) + b1

\* the type code read one byte late
KindOffsets_late(q) == <<q.end - 3, q.end - 3 + 1>>

\* Question::kind: the offsets b0 and b1 it reads
KindOffsets(q) == <<q.end - 4, q.end - 4 + 1>>

\* Question::class: the offsets b0 and b1 it reads
ClassOffsets(q) == <<q.end - 2, q.end - 2 + 1>>

\* '.'
Dot == 46

\* str::from_utf8_unchecked is defined only for valid UTF-8; every byte below
\* 128 is, and no sequence holding 192 (0xC0) is
ValidUtf8(s) == \A k \in 1..Len(s) : s[k] < 128

(***************************************************************************)
(* One iteration of the loop of <QuestionName as Display>::fmt, from       *)
(* cursor i with `o` written so far.  kind: "index" (buf[i] or buf[i + 1]  *)
(* out of range), "slice" (buf[i..i + len] out of range, after the         *)
(* separator was written), "jump", "done" (return Ok), "label".  reads: the *)
(* offsets of buf the iteration reads.                                     *)
(***************************************************************************)
\* a separator in front of every label
FmtSeparator_always(start, i) == TRUE

\* whether fmt writes "." in front of the label at i
FmtSeparator(start, i) == i # start

FmtIter(b, start, i, o) ==
  IF i >= Len(b) THEN [kind |-> "index", i |-> i, out |-> o, reads |-> {}]
  ELSE LET pointer_or_len == At(b, i)
           len == mask_len(pointer_or_len)
           sep == IF FmtSeparator(start, i) THEN o \o <<Dot>> ELSE o
       IN IF is_pointer(pointer_or_len)
            THEN IF i + 1 >= Len(b)
                   THEN [kind |-> "index", i |-> i, out |-> o, reads |-> {i}]
                   ELSE [kind |-> "jump", i |-> (len * 256) + At(b, i + 1),
                         out |-> o, reads |-> {i, i + 1}]
          ELSE IF len = 0 THEN [kind |-> "done", i |-> i, out |-> o, reads |-> {i}]
          ELSE IF i + 1 + len > Len(b)
                 THEN [kind |-> "slice", i |-> i + 1, out |-> sep, reads |-> {i}]
          ELSE [kind |-> "label", i |-> i + 1 + len,
                out |-> sep \o Slice(b, i + 1, i + 1 + len),
                reads |-> i..(i + len)]

\* <QuestionName as Display>::fmt run to its end from cursor i, for at most
\* `left` more pointer jumps: done = TRUE and the text when it returns Ok,
\* done = FALSE when it panics or is still running after the jumps
RECURSIVE FmtRun(_, _, _, _, _)
FmtRun(b, start, i, o, left) ==
  LET r == FmtIter(b, start, i, o) IN
    IF r.kind = "done" THEN [done |-> TRUE, out |-> r.out]
    ELSE IF r.kind = "label" THEN FmtRun(b, start, r.i, r.out, left)
    ELSE IF r.kind = "jump" /\ left > 0 THEN FmtRun(b, start, r.i, r.out, left - 1)
    ELSE [done |-> FALSE, out |-> r.out]

(***************************************************************************)
(* One iteration of the loop of <QuestionName as PartialEq<&str>>::eq.     *)
(* kind: "index", "slice", "jump", "true", "false", "label".  reads: the    *)
(* offsets of buf the iteration reads.                                     *)
(***************************************************************************)
EqIter(b, i, o, oi) ==
  IF i >= Len(b) THEN [kind |-> "index", i |-> i, other_i |-> oi, reads |-> {}]
  ELSE LET pointer_or_len == At(b, i)
           len == mask_len(pointer_or_len)
           \* after the separator check
           oj == IF oi # 0 THEN oi + 1 ELSE oi
       IN IF is_pointer(pointer_or_len)
            THEN IF i + 1 >= Len(b)
                   THEN [kind |-> "index", i |-> i, other_i |-> oi, reads |-> {i}]
                   ELSE [kind |-> "jump", i |-> (len * 256) + At(b, i + 1),
                         other_i |-> oi, reads |-> {i, i + 1}]
          ELSE IF len = 0
                 THEN [kind |-> IF oi = Len(o) THEN "true" ELSE "false",
                       i |-> i, other_i |-> oi, reads |-> {i}]
          ELSE IF oi # 0 /\ (oi >= Len(o) \/ At(o, oi) # Dot)
                 THEN [kind |-> "false", i |-> i, other_i |-> oi, reads |-> {i}]
          ELSE IF oj + len > Len(o)
                 THEN [kind |-> "false", i |-> i + 1, other_i |-> oj, reads |-> {i}]
          ELSE IF i + 1 + len > Len(b)
                 THEN [kind |-> "slice", i |-> i + 1, other_i |-> oj, reads |-> {i}]
          ELSE IF ~eq_ignore_ascii_case(Slice(b, i + 1, i + 1 + len),
                                        Slice(o, oj, oj + len))
                 THEN [kind |-> "false", i |-> i + 1, other_i |-> oj,
                       reads |-> i..(i + len)]
          ELSE [kind |-> "label", i |-> i + 1 + len, other_i |-> oj + len,
                reads |-> i..(i + len)]

(***************************************************************************)
(* State.                                                                  *)
(***************************************************************************)
VARIABLES
  buf,               \* Questions::buf, shared by every view
  question_count,    \* Questions::question_count
  current_question,  \* Questions::current_question
  buf_i,             \* Questions::buf_i
  offset,            \* the buf_i the sequence was created with
  yielded,           \* the Question views next() has returned, in order
  ret,               \* what the last call returned, "pending" until it does
  pc,                \* "idle" (in the caller), "fmt" or "eq" (in the loop)
  panic,             \* "none", or why the process panicked
  name,              \* the QuestionName being traversed
  i,                 \* the traversal's cursor
  out,               \* the text fmt has written
  other,             \* the right-hand side of eq
  other_i,           \* eq's position in it
  jumps,             \* pointer jumps of the traversal so far
  reads,             \* the offsets of buf the traversal has read
  code               \* the u16 the last call of kind() or class() decoded

iter == <<buf, offset, question_count, current_question, buf_i, yielded>>
trav == <<name, i, out, other, other_i, jumps, reads, code>>
vars == <<iter, ret, pc, panic, trav>>

NoName == [start |-> 0, end |-> 0]

TravReset ==
  /\ name' = NoName
  /\ i' = 0
  /\ out' = <<>>
  /\ other' = <<>>
  /\ other_i' = 0
  /\ jumps' = 0
  /\ reads' = {}
  /\ code' = 0

Init ==
  /\ \E h \in Headers, body \in ArbBodies \cup TruncatedBodies :
       /\ buf = h \o body
       /\ buf_i = Len(h)
       /\ offset = Len(h)
  /\ question_count \in Counts
  /\ current_question = 0
  /\ yielded = <<>>
  /\ ret = "init"
  /\ pc = "idle"
  /\ panic = "none"
  /\ name = NoName
  /\ i = 0
  /\ out = <<>>
  /\ other = <<>>
  /\ other_i = 0
  /\ jumps = 0
  /\ reads = {}
  /\ code = 0

\* next() that yields the view and does not store the new cursor
NextQ_stale_cursor ==
  /\ pc = "idle"
  /\ panic = "none"
  /\ TravReset
  /\ IF Exhausted(current_question, question_count)
       THEN /\ ret' = "None"
            /\ UNCHANGED <<iter, pc, panic>>
       ELSE LET r == read_question(buf, buf_i) IN
              IF r.ok
                THEN /\ yielded' = Append(yielded, [start |-> buf_i, end |-> r.i])
                     /\ current_question' = current_question + 1
                     /\ ret' = "Some"
                     /\ UNCHANGED <<buf, buf_i, offset, question_count, pc, panic>>
                ELSE /\ panic' = "assert"
                     /\ ret' = "pending"
                     /\ UNCHANGED <<iter, pc>>

(***************************************************************************)
(* Questions::next                                                         *)
(***************************************************************************)
NextQ ==
  /\ pc = "idle"
  /\ panic = "none"
  /\ TravReset
  /\ IF Exhausted(current_question, question_count)
       THEN /\ ret' = "None"
            /\ UNCHANGED <<iter, pc, panic>>
       ELSE LET r == read_question(buf, buf_i) IN
              IF r.ok
                THEN /\ yielded' = Append(yielded, [start |-> buf_i, end |-> r.i])
                     /\ current_question' = current_question + 1
                     /\ buf_i' = r.i
                     /\ ret' = "Some"
                     /\ UNCHANGED <<buf, offset, question_count, pc, panic>>
                ELSE /\ panic' = "assert"
                     /\ ret' = "pending"
                     /\ UNCHANGED <<iter, pc>>

(***************************************************************************)
(* question.name().fmt(f) on the view next() has just returned             *)
(***************************************************************************)
FmtStart ==
  /\ pc = "idle"
  /\ panic = "none"
  /\ ret = "Some"
  /\ pc' = "fmt"
  /\ name' = QuestionName(Last(yielded))
  /\ i' = Last(yielded).start
  /\ out' = <<>>
  /\ other' = <<>>
  /\ other_i' = 0
  /\ jumps' = 0
  /\ reads' = {}
  /\ code' = 0
  /\ ret' = "pending"
  /\ UNCHANGED <<iter, panic>>

\* a traversal is followed for at most Len(buf) + 1 pointer jumps
WithinJumps == jumps <= Len(buf)

FmtStep ==
  /\ pc = "fmt"
  /\ panic = "none"
  /\ WithinJumps
  /\ LET r == FmtIter(buf, name.start, i, out) IN
       /\ i' = r.i
       /\ jumps' = IF r.kind = "jump" THEN jumps + 1 ELSE jumps
       /\ reads' = reads \cup r.reads
       /\ \/ /\ r.kind \in {"index", "slice"}
             /\ panic' = r.kind
             /\ out' = r.out
             /\ UNCHANGED <<pc, ret>>
          \/ /\ r.kind = "jump"
             /\ UNCHANGED <<out, pc, ret, panic>>
          \/ /\ r.kind = "done"
             /\ pc' = "idle"
             /\ ret' = "Ok"
             /\ UNCHANGED <<out, panic>>
          \/ /\ r.kind = "label"
             /\ ValidUtf8(Slice(buf, i + 1, r.i))
             /\ out' = r.out
             /\ UNCHANGED <<pc, ret, panic>>
          \/ \* from_utf8_unchecked on bytes that are not UTF-8
             /\ r.kind = "label"
             /\ ~ValidUtf8(Slice(buf, i + 1, r.i))
             /\ \/ out' = r.out /\ panic' = panic
                \/ out' = out /\ panic' = "undefined"
             /\ UNCHANGED <<pc, ret>>
  /\ UNCHANGED <<iter, name, other, other_i, code>>

(***************************************************************************)
(* question.name() == o on the view next() has just returned               *)
(***************************************************************************)
EqStart ==
  /\ pc = "idle"
  /\ panic = "none"
  /\ ret = "Some"
  /\ \E o \in Others : other' = o
  /\ pc' = "eq"
  /\ name' = QuestionName(Last(yielded))
  /\ i' = Last(yielded).start
  /\ out' = <<>>
  /\ other_i' = 0
  /\ jumps' = 0
  /\ reads' = {}
  /\ code' = 0
  /\ ret' = "pending"
  /\ UNCHANGED <<iter, panic>>

EqStep ==
  /\ pc = "eq"
  /\ panic = "none"
  /\ WithinJumps
  /\ LET r == EqIter(buf, i, other, other_i) IN
       /\ i' = r.i
       /\ other_i' = r.other_i
       /\ jumps' = IF r.kind = "jump" THEN jumps + 1 ELSE jumps
       /\ reads' = reads \cup r.reads
       /\ \/ /\ r.kind \in {"index", "slice"}
             /\ panic' = r.kind
             /\ UNCHANGED <<pc, ret>>
          \/ /\ r.kind \in {"jump", "label"}
             /\ UNCHANGED <<pc, ret, panic>>
          \/ /\ r.kind \in {"true", "false"}
             /\ pc' = "idle"
             /\ ret' = r.kind
             /\ UNCHANGED panic
  /\ UNCHANGED <<iter, name, out, other, code>>

(***************************************************************************)
(* question.kind() and question.class() on the view next() has just        *)
(* returned.  code is the u16 handed to QueryKind::from / QueryClass::from *)
(* (enumerations outside this file).  An offset below 0 or at or past      *)
(* len(buf) is a panic of the subtraction or of buf[b0], buf[b1].          *)
(***************************************************************************)
Accessor(what, offs) ==
  /\ pc = "idle"
  /\ panic = "none"
  /\ ret = "Some"
  /\ IF offs[1] >= 0 /\ offs[2] < Len(buf)
       THEN /\ ret' = what
            /\ code' = from_be_bytes(At(buf, offs[1]), At(buf, offs[2]))
            /\ reads' = {offs[1], offs[2]}
            /\ UNCHANGED panic
       ELSE /\ panic' = "index"
            /\ ret' = "pending"
            /\ UNCHANGED <<code, reads>>
  /\ UNCHANGED <<iter, pc, name, i, out, other, other_i, jumps>>

KindCall == Accessor("kind", KindOffsets(Last(yielded)))

ClassCall == Accessor("class", ClassOffsets(Last(yielded)))

Next ==
  NextQ \/ FmtStart \/ FmtStep \/ EqStart \/ EqStep \/ KindCall \/ ClassCall

Spec == Init /\ [][Next]_vars

(***************************************************************************)
(* What the claims speak of, stated from the wire format and not from the  *)
(* scanner: where an encoded name and a record end, and which labels a     *)
(* name holds.  -1 stands for "no such name or record here".               *)
(***************************************************************************)
\* one past the encoded name at p: labels, then a zero-length label or a
\* 2-byte pointer (descriptors classified by the top two and low six bits)
RECURSIVE NameEnd(_, _)
NameEnd(b, p) ==
  IF p >= Len(b) THEN -1
  ELSE IF At(b, p) >= 192 THEN (IF p + 2 <= Len(b) THEN p + 2 ELSE -1)
  ELSE IF At(b, p) % 64 = 0 THEN p + 1
  ELSE IF p + 1 + (At(b, p) % 64) <= Len(b)
         THEN NameEnd(b, p + 1 + (At(b, p) % 64))
  ELSE -1

\* one past the record at p: its name, then 2 bytes of type and 2 of class
RecordEnd(b, p) ==
  LET e == NameEnd(b, p) IN IF e >= 0 /\ e + 4 <= Len(b) THEN e + 4 ELSE -1

\* the n records back-to-back from p, as views; <<>> when there are not n
RECURSIVE RecordsFrom(_, _, _)
RecordsFrom(b, p, n) ==
  IF n = 0 THEN <<>>
  ELSE LET e == RecordEnd(b, p) IN
         IF e < 0 THEN <<>>
         ELSE LET rest == RecordsFrom(b, e, n - 1) IN
                IF n > 1 /\ rest = <<>> THEN <<>>
                ELSE <<[start |-> p, end |-> e]>> \o rest

\* b holds exactly n >= 1 records back-to-back from p to its end
HoldsExactly(b, p, n) ==
  /\ n >= 1
  /\ Len(RecordsFrom(b, p, n)) = n
  /\ Last(RecordsFrom(b, p, n)).end = Len(b)

\* the message is a valid message cut at a byte boundary
IsTruncatedMessage(b, off) ==
  /\ off <= Len(b)
  /\ SubSeq(b, off + 1, Len(b)) \in TruncatedBodies

ViewBounded(b, v) == v.start < v.end /\ v.end <= Len(b)

\* a label's content is text: ASCII
IsText(l) == \A k \in 1..Len(l) : l[k] < 128

NoLabels == [ok |-> FALSE, labels |-> <<>>]

\* the labels of the pointer-free name at p: labels with a length byte of
\* 1..63, ended by a zero byte
RECURSIVE PlainLabels(_, _)
PlainLabels(b, p) ==
  IF p >= Len(b) THEN NoLabels
  ELSE IF At(b, p) = 0 THEN [ok |-> TRUE, labels |-> <<>>]
  ELSE IF At(b, p) <= 63 /\ p + 1 + At(b, p) <= Len(b)
          /\ IsText(SubSeq(b, p + 2, p + 1 + At(b, p)))
         THEN LET r == PlainLabels(b, p + 1 + At(b, p)) IN
                IF r.ok
                  THEN [ok |-> TRUE,
                        labels |-> <<SubSeq(b, p + 2, p + 1 + At(b, p))>> \o r.labels]
                  ELSE NoLabels
  ELSE NoLabels

NoPointer == [ok |-> FALSE, labels |-> <<>>, target |-> 0]

\* the inline labels and the 14-bit target of the name at p that ends in a
\* compression pointer
RECURSIVE PointerName(_, _)
PointerName(b, p) ==
  IF p >= Len(b) THEN NoPointer
  ELSE IF At(b, p) >= 192
         THEN IF p + 1 < Len(b)
                THEN [ok |-> TRUE, labels |-> <<>>,
                      target |-> (At(b, p) - 192) * 256 + At(b, p + 1)]
                ELSE NoPointer
  ELSE IF At(b, p) \in 1..63 /\ p + 1 + At(b, p) <= Len(b)
          /\ IsText(SubSeq(b, p + 2, p + 1 + At(b, p)))
         THEN LET r == PointerName(b, p + 1 + At(b, p)) IN
                IF r.ok
                  THEN [ok |-> TRUE, target |-> r.target,
                        labels |-> <<SubSeq(b, p + 2, p + 1 + At(b, p))>> \o r.labels]
                  ELSE NoPointer
  ELSE NoPointer

\* the labels of the name at p that continues, through its pointer, in an
\* earlier pointer-free name: the inline labels, then the labels pointed to
CompressedLabels(b, p) ==
  LET n == PointerName(b, p) IN
    IF n.ok /\ n.target < p /\ PlainLabels(b, n.target).ok
      THEN [ok |-> TRUE, labels |-> n.labels \o PlainLabels(b, n.target).labels]
      ELSE NoLabels

\* the label chain of the name at p
LabelChain(b, p) ==
  IF PlainLabels(b, p).ok THEN PlainLabels(b, p) ELSE CompressedLabels(b, p)

\* the dotted text of a label chain
RECURSIVE Join(_)
Join(ls) ==
  IF ls = <<>> THEN <<>>
  ELSE IF Len(ls) = 1 THEN ls[1]
  ELSE ls[1] \o <<46>> \o Join(Tail(ls))

CaseFold(c) == IF c >= 65 /\ c <= 90 THEN c + 32 ELSE c

SameUpToCase(x, y) ==
  /\ Len(x) = Len(y)
  /\ \A k \in 1..Len(x) : CaseFold(x[k]) = CaseFold(y[k])

\* the name being traversed is the encoded name n
NameIs(n) ==
  /\ name.start + Len(n) <= Len(buf)
  /\ SubSeq(buf, name.start + 1, name.start + Len(n)) = n

FmtReturned == pc = "idle" /\ ret = "Ok"
EqReturned == pc = "idle" /\ ret \in {"true", "false"}

(***************************************************************************)
(* The claims.                                                             *)
(***************************************************************************)

\* C1: when the scan fails at the cursor, next() hands the caller an error
\* value and does not abort the process: no call of next() ends in the panic
\* of its assertion.
C1_ScanFailureIsReturned == panic # "assert"

\* C2: on a valid message truncated at any byte boundary, with a question
\* count of at least 1, the calls of next() yield only bounded views
\* (start < end <= len) and never panic.
C2_TruncationSafety ==
  (IsTruncatedMessage(buf, offset) /\ question_count >= 1) =>
     /\ panic # "assert"
     /\ \A k \in 1..Len(yielded) : ViewBounded(buf, yielded[k])

\* C3: a name traversal (fmt or eq) is bounded on every buffer: it makes at
\* most len(buffer) pointer jumps.  A traversal that jumps more often has
\* taken some pointer twice and, being deterministic, repeats forever.
C3_TraversalBounded == jumps <= Len(buf)

\* C4: a name traversal never indexes the buffer out of range: an access at
\* or past len(buffer) is an error result, not a panic of buf[i], buf[i + 1]
\* or buf[i..i + len].
C4_NoOutOfRangeAccess == panic \notin {"index", "slice"}

\* C5: when the buffer holds exactly question_count well-formed records
\* back-to-back from the creation offset to its end, next() never fails, the
\* views yielded are those records in order (the first starts at the offset,
\* each next one starts where the one before ends), there are question_count
\* of them once next() returns None, and the last one ends at the end of the
\* buffer.
C5_ExactRecordsTile ==
  HoldsExactly(buf, offset, question_count) =>
     /\ panic # "assert"
     /\ Len(yielded) = current_question
     /\ yielded = SubSeq(RecordsFrom(buf, offset, question_count), 1, Len(yielded))
     /\ (yielded # <<>> => yielded[1].start = offset)
     /\ \A k \in 2..Len(yielded) : yielded[k].start = yielded[k - 1].end
     /\ (ret = "None" => Len(yielded) = question_count)
     /\ (Len(yielded) = question_count => Last(yielded).end = Len(buf))

C5_Witness ==
  /\ HoldsExactly(buf, offset, question_count)
  /\ question_count = 2
  /\ offset = 1
  /\ ret = "None"
  /\ Len(yielded) = 2
  /\ yielded[2].start = yielded[1].end

\* C6: every view yielded, on any buffer, offset and count, has
\* start < end <= len(buffer), and its bytes are one complete record: an
\* encoded name ended by a zero-length label or a 2-byte pointer, then exactly
\* 4 bytes.
C6_ViewIsOneRecord ==
  \A k \in 1..Len(yielded) :
     /\ ViewBounded(buf, yielded[k])
     /\ NameEnd(buf, yielded[k].start) = yielded[k].end - 4
     /\ RecordEnd(buf, yielded[k].start) = yielded[k].end

\* two views: a name of one label ended by a pointer, after a name ended by
\* a zero-length label
C6_Witness ==
  /\ Len(yielded) = 2
  /\ At(buf, yielded[1].end - 5) = 0
  /\ is_pointer(At(buf, yielded[2].end - 6))
  /\ yielded[2].end - yielded[2].start = 8

\* C7: the produced count never exceeds the expected count, at most
\* question_count views are yielded, with a count of 0 nothing is scanned (no
\* view, no failure, the cursor stays), and a call of next() with
\* current_question >= question_count returns None and changes nothing.
C7_CountBound ==
  /\ current_question <= question_count
  /\ Len(yielded) <= question_count
  /\ (question_count = 0 => panic = "none" /\ yielded = <<>> /\ buf_i = offset)

C7_ExhaustedCall ==
  (NextQ /\ current_question >= question_count) =>
     (ret' = "None" /\ panic' = "none" /\ UNCHANGED iter)

C7_ExhaustedYieldsNone == []C7_CountBound /\ [][C7_ExhaustedCall]_vars

\* next() returned None after the count was reached, with more records left
C7_Witness ==
  /\ ret = "None"
  /\ question_count = 1
  /\ Len(yielded) = 1
  /\ RecordEnd(buf, buf_i) > 0

\* C8: name == string is true exactly when the string is the name's labels,
\* each up to ASCII case, with a '.' between consecutive labels and nothing
\* before or after; the name "Example.COM" equals "example.com" and
\* "EXAMPLE.COM" and none of "example.co", "example.com.", "exampleXcom".
C8_EqualityAgainstString ==
  /\ (pc = "eq" /\ LabelChain(buf, name.start).ok) => panic = "none"
  /\ (EqReturned /\ LabelChain(buf, name.start).ok) =>
        ((ret = "true") <=>
           SameUpToCase(Join(LabelChain(buf, name.start).labels), other))
  /\ (EqReturned /\ NameIs(NameExample) /\ other \in ExampleStrings) =>
        ((ret = "true") <=>
           other \in { <<101, 120, 97, 109, 112, 108, 101, 46, 99, 111, 109>>,
                       <<69, 88, 65, 77, 80, 76, 69, 46, 67, 79, 77>> })

\* "Example.COM" == "example.com" returned true
C8_Witness ==
  /\ EqReturned
  /\ NameIs(NameExample)
  /\ other = <<101, 120, 97, 109, 112, 108, 101, 46, 99, 111, 109>>
  /\ ret = "true"

\* C9: a name that continues through a pointer in an earlier pointer-free
\* name renders as the inline labels followed by the labels pointed to,
\* joined by single '.'.
C9_PointerRendersInlined ==
  (FmtReturned /\ CompressedLabels(buf, name.start).ok) =>
     out = Join(CompressedLabels(buf, name.start).labels)

\* C10: a pointer-free name ended by a zero-length label renders, without
\* failing, as its labels in order joined by '.'; the text neither starts nor
\* ends with a '.' that is not part of a label, and the root name renders as
\* the empty text.
C10_PlainNameRenders ==
  LET n == PlainLabels(buf, name.start) IN
    /\ (pc = "fmt" /\ n.ok) => panic = "none"
    /\ (FmtReturned /\ n.ok) =>
          /\ out = Join(n.labels)
          /\ (n.labels = <<>> <=> out = <<>>)
          /\ (out # <<>> /\ (\A k \in 1..Len(n.labels) : Dot \notin {n.labels[k][j] : j \in 1..Len(n.labels[k])}))
                => (out[1] # Dot /\ Last(out) # Dot)
    /\ (FmtReturned /\ NameIs(NameExample)) =>
          out = <<69, 120, 97, 109, 112, 108, 101, 46, 67, 79, 77>>

\* "a.A" was rendered
C10_Witness ==
  /\ FmtReturned
  /\ NameIs(NameAA)
  /\ out = <<97, 46, 65>>

\* C11: for every view yielded, kind() decodes the big-endian 16-bit value of
\* the bytes at end - 4 and end - 3, and class() that of the bytes at end - 2
\* and end - 1: the two bytes, and the next two, right behind the encoded
\* name, however long it is.  Both read inside the buffer and inside
\* [start, end), and neither panics.
C11_TypeClassDecoding ==
  /\ (pc = "idle") => panic # "index"
  /\ (pc = "idle" /\ ret \in {"kind", "class"}) =>
        LET q == Last(yielded)
            e == NameEnd(buf, q.start)
            at == IF ret = "kind" THEN q.end - 4 ELSE q.end - 2
        IN /\ at = (IF ret = "kind" THEN e ELSE e + 2)
           /\ code = (256 * buf[at + 1]) + buf[at + 2]
           /\ code \in 0..65535
           /\ reads = {at, at + 1}
           /\ \A r \in reads : r >= q.start /\ r < q.end /\ r < Len(buf)

\* class() of a question whose name is a label and a pointer decoded 255
C11_Witness ==
  /\ pc = "idle"
  /\ ret = "class"
  /\ code = 255
  /\ Last(yielded).end - Last(yielded).start = 8
  /\ Len(yielded) = 2

\* the lengths of the positive-length labels from p up to the first
\* zero-length label or pointer (or the end of the buffer)
RECURSIVE LabelLengths(_, _)
LabelLengths(b, p) ==
  IF p >= Len(b) THEN <<>>
  ELSE IF At(b, p) >= 192 \/ At(b, p) % 64 = 0 THEN <<>>
  ELSE <<At(b, p) % 64>> \o LabelLengths(b, p + 1 + (At(b, p) % 64))

\* 1 + L for each label
RECURSIVE WireLength(_)
WireLength(ls) == IF ls = <<>> THEN 0 ELSE 1 + Head(ls) + WireLength(Tail(ls))

\* b with every byte outside [from, to) replaced by v
Masked(b, from, to, v) ==
  [k \in 1..Len(b) |-> IF k > from /\ k <= to THEN b[k] ELSE v]

\* C12: a successful scan moves the cursor by the on-wire length of the
\* record at the cursor: 1 + L for each positive-length label, then 1 for
\* a zero-length label or 2 for a pointer, then 4; and the new cursor is
\* decided by the bytes between the old and the new cursor alone: the same
\* scan succeeds with the same length on those bytes taken out of the buffer,
\* and on the buffer with every other byte overwritten (by zeros, or by
\* pointer tags), so no pointer is followed.
C12_ScanAdvancesByWireLength ==
  (pc = "idle" /\ ret = "Some") =>
     LET q == Last(yielded)
         ls == LabelLengths(buf, q.start)
         t == q.start + WireLength(ls)
     IN /\ buf_i = q.end
        /\ t < Len(buf)
        /\ q.end - q.start = WireLength(ls) + (IF At(buf, t) >= 192 THEN 2 ELSE 1) + 4
        /\ read_question(SubSeq(buf, q.start + 1, q.end), 0)
              = [ok |-> TRUE, i |-> q.end - q.start]
        /\ \A v \in {0, 192} :
              read_question(Masked(buf, q.start, q.end, v), q.start)
                 = [ok |-> TRUE, i |-> q.end]

\* the second question scanned is a one-byte label and a pointer to offset 0
C12_Witness ==
  /\ pc = "idle"
  /\ ret = "Some"
  /\ Len(yielded) = 2
  /\ LabelLengths(buf, Last(yielded).start) = <<1>>
  /\ At(buf, Last(yielded).start + 2) = 192
  /\ Last(yielded).end = Last(yielded).start + 8

\* C13: the sequence is forward-only.  In every state the stored cursor is
\* the end of the last view yielded (the creation offset when there is none)
\* and the produced count is the number of views yielded; in every step the
\* cursor does not decrease, and it increases when a view is yielded.
C13_CursorAndCount ==
  /\ buf_i = (IF yielded = <<>> THEN offset ELSE Last(yielded).end)
  /\ current_question = Len(yielded)

C13_CursorStep ==
  /\ buf_i' >= buf_i
  /\ Len(yielded') >= Len(yielded)
  /\ (Len(yielded') > Len(yielded) =>
        /\ buf_i' > buf_i
        /\ Len(yielded') = Len(yielded) + 1
        /\ SubSeq(yielded', 1, Len(yielded)) = yielded)

C13_ForwardOnly == []C13_CursorAndCount /\ [][C13_CursorStep]_vars

\* two views were yielded from a sequence created at offset 1
C13_Witness ==
  /\ offset = 1
  /\ Len(yielded) = 2
  /\ current_question = 2
  /\ buf_i = yielded[2].end
  /\ yielded[2].end > yielded[1].end
  /\ yielded[1].end > offset

\* the scan from cursor c: its label steps are the calls of read_label that
\* return Some
ScanTerminatesFrom(b, c) ==
  LET cs == read_question_cursors(b, c)
      l == read_label(b, c)
  IN \* every label step moves the cursor forward, from inside the buffer
     /\ \A k \in 1..(Len(cs) - 1) : cs[k] < cs[k + 1] /\ cs[k] < Len(b)
     /\ (l.some => l.i > c)
     /\ (~l.some => l.i = c)
     \* at most len(buffer) label steps
     /\ Len(cs) - 1 <= Len(b)
     /\ (c <= Len(b) => Len(cs) - 1 <= Len(b) - c)
     \* at or past the end the scan fails at once
     /\ (c >= Len(b) => ~l.some /\ ~read_question(b, c).ok /\ Len(cs) = 1)
     \* a label that overruns the buffer makes the scan fail
     /\ (c < Len(b) /\ ~is_pointer(At(b, c)) /\ c + 1 + mask_len(At(b, c)) > Len(b))
           => ~read_question(b, c).ok
     \* a scan that succeeds stays inside the buffer
     /\ (read_question(b, c).ok => read_question(b, c).i <= Len(b))

\* C14: the scanner terminates on every buffer from every starting cursor:
\* each label step increases the cursor, a cursor at or past the end fails
\* the scan, so a scan has at most len(buffer) label steps, and a label whose
\* content overruns the buffer fails the scan.  Stated for every cursor of
\* the buffers the sequences are created with, and for the cursor next()
\* scans from.
C14_ScannerTerminates ==
  /\ (ret = "init") => \A c \in 0..(Len(buf) + 1) : ScanTerminatesFrom(buf, c)
  /\ ScanTerminatesFrom(buf, buf_i)
  /\ (panic = "assert") => ~read_question(buf, buf_i).ok

\* next() scanned a label whose content overruns the buffer, and the scan
\* failed
C14_Witness ==
  /\ panic = "assert"
  /\ buf_i < Len(buf)
  /\ ~is_pointer(At(buf, buf_i))
  /\ mask_len(At(buf, buf_i)) > 1
  /\ buf_i + 1 + mask_len(At(buf, buf_i)) > Len(buf)

\* the text fmt renders for the name at p, when fmt returns
Rendered(b, p) == FmtRun(b, p, p, <<>>, Len(b) + 1)

\* C15: on every name on which fmt and eq both return, a name that starts
\* with a compression pointer included, name == s is true exactly when the
\* text fmt renders equals s up to ASCII case.
C15_RenderAndEqualityAgree ==
  (EqReturned /\ Rendered(buf, name.start).done) =>
     ((ret = "true") <=> SameUpToCase(Rendered(buf, name.start).out, other))

\* the name of view q holds no pointer: its labels end in a zero-length label
NoPointerIn(b, q) ==
  LET t == q.start + WireLength(LabelLengths(b, q.start)) IN
    t < Len(b) /\ At(b, t) < 192

Traversing == pc \in {"fmt", "eq"} \/ FmtReturned \/ EqReturned

\* C16: for every view yielded, end - start >= 5, so the end offset of its
\* name view, end - 5, does not underflow and is not before start.  When the
\* name holds no pointer, a traversal of it (fmt or eq) reads only offsets in
\* [start, end - 4), follows no pointer and does not index out of range; and
\* when fmt returns, or eq returns true, the cursor stands on the zero-length
\* label at end - 5, the end offset stored in the name view.
C16_NameEndsWhereScannerSays ==
  /\ \A k \in 1..Len(yielded) :
        /\ yielded[k].end - yielded[k].start >= 5
        /\ QuestionName(yielded[k]).end >= yielded[k].start
        /\ QuestionName(yielded[k]).end = yielded[k].end - 5
  /\ (Traversing /\ NoPointerIn(buf, Last(yielded))) =>
        LET q == Last(yielded) IN
          /\ name.start = q.start
          /\ \A r \in reads : r >= q.start /\ r < q.end - 4
          /\ i <= name.end
          /\ jumps = 0
          /\ panic \notin {"index", "slice"}
          /\ (FmtReturned \/ (EqReturned /\ ret = "true")) =>
                /\ i = name.end
                /\ i = q.end - 5
                /\ mask_len(At(buf, i)) = 0
                /\ reads = q.start..(q.end - 5)

\* fmt returned on the name "a.A", having read its five bytes
C16_Witness ==
  /\ FmtReturned
  /\ NameIs(NameAA)
  /\ i = name.end
  /\ i = Last(yielded).start + 4
  /\ reads = Last(yielded).start..(Last(yielded).start + 4)

====
